---- MODULE Spec2Model ----
(***************************************************************************)
(* A model of the asyncqlio / katagawa core:                               *)
(*   - BaseTransaction used as an async context manager (backends/base.py) *)
(*   - DictRow, the ordered row addressable by key and by position         *)
(*   - Table / PrimaryKey / TableRow change tracking (orm/schema.py)       *)
(* Each part has its own specification (SpecTx, SpecRow, SpecDict), which  *)
(* leaves the variables of the other parts at their initial values.        *)
(***************************************************************************)
EXTENDS Integers, Sequences, FiniteSets, TLC

VARIABLES
    \* ---- BaseTransaction inside "async with" ----
    txPc,          \* position of the coroutine running the async-with statement
    txCalls,       \* the methods of the transaction invoked so far, in order
    txCloseArgs,   \* the has_error argument each close() call received
    txExc,         \* exc_type handed to __aexit__ ("None" on normal exit)
    txPending,     \* what __aexit__'s try block left pending when finally starts
    txOutcome,     \* what the async-with statement surfaces to its caller
    txCount,       \* transactions obtained from the connector so far
    \* ---- DictRow ----
    dOrder,        \* the keys of the ordered dict, in its iteration order
    dMap,          \* key -> value
    dLast,         \* the last __getitem__ / __setitem__ call and its result
    \* ---- Table / PrimaryKey / TableRow ----
    tblDeclared,   \* the class statement of the table has been executed
    tblBody,       \* the class body: the columns in declaration order
    tblPk,         \* Table._primary_key
    rowBound,      \* a TableRow of the table exists
    rowValues,     \* TableRow._values: Column -> current value
    rowPrev,       \* TableRow._previous_values: Column -> previous value
    rowFirst,      \* per column written with update_column since the row was
                   \* built: what the column held before its first write
    rowLast,       \* the last call on the table or the row and its result
    \* ---- BaseResultSet ----
    rsPc,          \* position of the task that uses the result set
    rsStream,      \* what the next fetch_row() calls of the cursor will return
    rsCalls,       \* the methods of the result set invoked so far, in order
    rsExc,         \* exc_type handed to __aexit__ ("None" on normal exit)
    rsOutcome,     \* what the async-with statement surfaces to its caller
    rsLast,        \* the last fetch_row() / flatten() call and its result
    \* ---- BaseQuery ----
    qTables,       \* BaseQuery.tables: the selected tables, in insertion order
    qConditions,   \* BaseQuery.conditions
    qAdded,        \* every argument given to where() so far, in call order
    qCompiles,     \* get_token() calls made so far
    qLast          \* the last select() / where() / get_token() call and its result

txVars == <<txPc, txCalls, txCloseArgs, txExc, txPending, txOutcome, txCount>>

dVars == <<dOrder, dMap, dLast>>

tblVars == <<tblDeclared, tblBody, tblPk>>

rowVars == <<rowBound, rowValues, rowPrev, rowFirst, rowLast>>

rsVars == <<rsPc, rsStream, rsCalls, rsExc, rsOutcome, rsLast>>

qVars == <<qTables, qConditions, qAdded, qCompiles, qLast>>

vars == <<txVars, dVars, tblVars, rowVars, rsVars, qVars>>

\* What the operations of one part leave alone: the variables of the others.
txVarsOther == <<dVars, tblVars, rowVars, rsVars, qVars>>
dVarsOther == <<txVars, tblVars, rowVars, rsVars, qVars>>
rowVarsOther == <<txVars, dVars, rsVars, qVars>>
rsVarsOther == <<txVars, dVars, tblVars, rowVars, qVars>>
qVarsOther == <<txVars, dVars, tblVars, rowVars, rsVars>>

(***************************************************************************)
(* Bounds                                                                  *)
(***************************************************************************)
MaxTx == 2          \* transactions obtained from one connector
MaxStatements == 2  \* execute() calls in one transaction body
MaxIndex == 3       \* positional indexes range over -(MaxIndex + 1)..MaxIndex
MaxRows == 3        \* results a cursor holds before it only returns None
MaxFetches == 3     \* fetch_row() / flatten() calls in the body of one "async with"
MaxConditions == 3  \* conditions one query accumulates
MaxArgs == 2        \* arguments of one where() or select() call
MaxCompiles == 3    \* get_token() calls on one query

(***************************************************************************)
(* BaseTransaction                                                         *)
(***************************************************************************)
\* An awaited abstract method either returns or raises; a cancellation of the
\* awaiting task is delivered as CancelledError raised at the await.
AwaitResults(method) == {"ok", method \o "_error", "CancelledError"}

\* What the body of the async-with block can raise.
BodyErrors == {"BodyError", "CancelledError"}

\* How often a method occurs in a call log.
RECURSIVE CountCalls(_, _)
CountCalls(log, m) ==
    IF log = <<>> THEN 0
    ELSE (IF Head(log) = m THEN 1 ELSE 0) + CountCalls(Tail(log), m)

\* The position of the first occurrence of a method in a call log, 0 if none.
FirstCall(log, m) ==
    IF \E i \in 1..Len(log) : log[i] = m
    THEN CHOOSE i \in 1..Len(log) : log[i] = m /\ \A j \in 1..(i - 1) : log[j] # m
    ELSE 0

\* BaseTransaction.__init__ (BaseConnector.get_transaction returns a new object).
TxInit ==
    /\ txPc = "new"
    /\ txCalls = <<>>
    /\ txCloseArgs = <<>>
    /\ txExc = "None"
    /\ txPending = "none"
    /\ txOutcome = "running"
    /\ txCount = 1

GetTransaction ==
    /\ txPc = "done"
    /\ txCount < MaxTx
    /\ txPc' = "new"
    /\ txCalls' = <<>>
    /\ txCloseArgs' = <<>>
    /\ txExc' = "None"
    /\ txPending' = "none"
    /\ txOutcome' = "running"
    /\ txCount' = txCount + 1
    /\ UNCHANGED txVarsOther

\* An entry that runs __aexit__ also when begin() raised.
AEnterExitOnFailure ==
    /\ txPc = "new"
    /\ \E r \in AwaitResults("begin") :
        /\ txCalls' = Append(txCalls, "begin")
        /\ IF r = "ok"
           THEN txPc' = "body" /\ txExc' = txExc
           ELSE txPc' = "aexit" /\ txExc' = r
    /\ UNCHANGED <<txCloseArgs, txOutcome, txPending, txCount>>
    /\ UNCHANGED txVarsOther

\* __aenter__: await self.begin(); return self.  If begin() raises, the
\* async-with statement never reaches __aexit__.
AEnter ==
    /\ txPc = "new"
    /\ \E r \in AwaitResults("begin") :
        /\ txCalls' = Append(txCalls, "begin")
        /\ IF r = "ok"
           THEN txPc' = "body" /\ txOutcome' = txOutcome
           ELSE txPc' = "done" /\ txOutcome' = r
    /\ UNCHANGED <<txCloseArgs, txExc, txPending, txCount>>
    /\ UNCHANGED txVarsOther

\* The body issues a statement that succeeds.
BodyExecute ==
    /\ txPc = "body"
    /\ CountCalls(txCalls, "execute") < MaxStatements
    /\ txCalls' = Append(txCalls, "execute")
    /\ UNCHANGED <<txPc, txCloseArgs, txExc, txPending, txOutcome, txCount>>
    /\ UNCHANGED txVarsOther

\* The body raises (or is cancelled at an await): __aexit__ gets the exception.
BodyRaise ==
    /\ txPc = "body"
    /\ \E e \in BodyErrors : txExc' = e
    /\ txPc' = "aexit"
    /\ UNCHANGED <<txCalls, txCloseArgs, txPending, txOutcome, txCount>>
    /\ UNCHANGED txVarsOther

\* The body runs to its end: __aexit__(None, None, None).
BodyReturn ==
    /\ txPc = "body"
    /\ txExc' = "None"
    /\ txPc' = "aexit"
    /\ UNCHANGED <<txCalls, txCloseArgs, txPending, txOutcome, txCount>>
    /\ UNCHANGED txVarsOther

\* The branch of __aexit__'s try block.
AExitBranchSwapped(exc_type) == IF exc_type # "None" THEN "commit" ELSE "rollback"

AExitBranch(exc_type) == IF exc_type # "None" THEN "rollback" ELSE "commit"

\* A try block without its finally clause: a raise in rollback() or commit()
\* leaves __aexit__ at once.
AExitTryNoFinally ==
    /\ txPc = "aexit"
    /\ LET m == AExitBranch(txExc) IN
       \E r \in AwaitResults(m) :
        /\ txCalls' = Append(txCalls, m)
        /\ txPending' = IF r = "ok" THEN "return_False" ELSE r
        /\ txPc' = IF r = "ok" THEN "finally" ELSE "done"
        /\ txOutcome' = IF r = "ok" THEN txOutcome ELSE r
    /\ UNCHANGED <<txCloseArgs, txExc, txCount>>
    /\ UNCHANGED txVarsOther

\* The try block of __aexit__: rollback() or commit(), then "return False".
\* Whether the awaited method returns or raises, the finally clause is next.
AExitTry ==
    /\ txPc = "aexit"
    /\ LET m == AExitBranch(txExc) IN
       \E r \in AwaitResults(m) :
        /\ txCalls' = Append(txCalls, m)
        /\ txPending' = IF r = "ok" THEN "return_False" ELSE r
        /\ txPc' = "finally"
    /\ UNCHANGED <<txCloseArgs, txExc, txOutcome, txCount>>
    /\ UNCHANGED txVarsOther

\* The has_error argument of the close() call in the finally clause: the call
\* passes none, so the parameter takes its declared default.
CloseHasError(exc_type) == FALSE

\* What the async-with statement surfaces once __aexit__ is over: an exception
\* leaving __aexit__ replaces the body's, a false return re-raises the body's.
Surfaced(exc_type, pending, closeResult) ==
    IF closeResult # "ok" THEN closeResult
    ELSE IF pending # "return_False" THEN pending
    ELSE IF exc_type # "None" THEN exc_type
    ELSE "ok"

\* The finally clause of __aexit__: await self.close().
AExitFinally ==
    /\ txPc = "finally"
    /\ \E r \in AwaitResults("close") :
        /\ txCalls' = Append(txCalls, "close")
        /\ txCloseArgs' = Append(txCloseArgs, CloseHasError(txExc))
        /\ txOutcome' = Surfaced(txExc, txPending, r)
    /\ txPc' = "done"
    /\ UNCHANGED <<txExc, txPending, txCount>>
    /\ UNCHANGED txVarsOther

NextTx ==
    \/ GetTransaction
    \/ AEnter
    \/ BodyExecute
    \/ BodyRaise
    \/ BodyReturn
    \/ AExitTry
    \/ AExitFinally

(***************************************************************************)
(* DictRow(OrderedDict)                                                    *)
(***************************************************************************)
DKeys == {"id", "name", "age"}
DValues == {"a", "b"}

\* An item is an int (positional) or a str (a key); isinstance(item, int)
\* is the tag.
IntItems == {[t |-> "int", i |-> i] : i \in (0 - (MaxIndex + 1))..MaxIndex}
StrItems == {[t |-> "str", k |-> k] : k \in DKeys}

\* some_list[i] of Python for a list of length n: the 1-based position
\* addressed, 0 when Python raises IndexError.  Negative i counts from the end.
ListIndex(n, i) ==
    IF 0 <= i /\ i < n THEN i + 1
    ELSE IF i < 0 /\ 0 - n <= i THEN n + i + 1
    ELSE 0

\* OrderedDict.__getitem__
SuperGetItem(order, map, k) ==
    IF k \in DOMAIN map
    THEN [ret |-> map[k], raised |-> "None"]
    ELSE [ret |-> "None", raised |-> "KeyError"]

\* OrderedDict.__setitem__: a new key goes to the end, an existing key keeps
\* its place.
SuperSetItem(order, map, k, v) ==
    IF k \in DOMAIN map
    THEN [order |-> order, map |-> [map EXCEPT ![k] = v], raised |-> "None"]
    ELSE [order |-> Append(order, k),
          map |-> [x \in DOMAIN map \cup {k} |-> IF x = k THEN v ELSE map[x]],
          raised |-> "None"]

\* DictRow.__getitem__
DictGetItem(order, map, item) ==
    IF item.t = "int"
    THEN LET pos == ListIndex(Len(order), item.i) IN
         IF pos = 0
         THEN [ret |-> "None", raised |-> "KeyError"]
         ELSE [ret |-> map[order[pos]], raised |-> "None"]
    ELSE SuperGetItem(order, map, item.k)

\* A positional write that drops the key and inserts it again, at the end.
DictSetItemMoveToEnd(order, map, item, value) ==
    IF item.t = "int"
    THEN LET pos == ListIndex(Len(order), item.i) IN
         IF pos = 0
         THEN [order |-> order, map |-> map, raised |-> "IndexError"]
         ELSE LET k == order[pos]
                  rest == SelectSeq(order, LAMBDA x : x # k)
              IN [order |-> Append(rest, k), map |-> [map EXCEPT ![k] = value],
                  raised |-> "None"]
    ELSE SuperSetItem(order, map, item.k, value)

\* DictRow.__setitem__
DictSetItem(order, map, item, value) ==
    IF item.t = "int"
    THEN LET pos == ListIndex(Len(order), item.i) IN
         IF pos = 0
         THEN [order |-> order, map |-> map, raised |-> "IndexError"]
         ELSE SuperSetItem(order, map, order[pos], value)
    ELSE SuperSetItem(order, map, item.k, value)

\* DictRow(): an empty row; rows are filled key by key.
DictInit ==
    /\ dOrder = <<>>
    /\ dMap = <<>>
    /\ dLast = [op |-> "init", item |-> [t |-> "none"], value |-> "None",
                ret |-> "None", raised |-> "None", keysBefore |-> <<>>]

\* value = row[item]
GetItem ==
    /\ UNCHANGED dVarsOther
    /\ \E item \in IntItems \cup StrItems :
           LET r == DictGetItem(dOrder, dMap, item) IN
           /\ dLast' = [op |-> "getitem", item |-> item, value |-> "None",
                        ret |-> r.ret, raised |-> r.raised, keysBefore |-> dOrder]
           /\ UNCHANGED <<dOrder, dMap>>

\* row[item] = value
SetItem ==
    /\ UNCHANGED dVarsOther
    /\ \E item \in IntItems \cup StrItems, value \in DValues :
           LET r == DictSetItem(dOrder, dMap, item, value) IN
           /\ dOrder' = r.order
           /\ dMap' = r.map
           /\ dLast' = [op |-> "setitem", item |-> item, value |-> value,
                        ret |-> "None", raised |-> r.raised, keysBefore |-> dOrder]

NextDict ==
    \/ GetItem
    \/ SetItem

(***************************************************************************)
(* Column, PrimaryKey, Table (TableMeta), TableRow                         *)
(***************************************************************************)
\* The attribute names a table class may give its columns, and their rank in
\* the order of Python strings ("a" < "b" < "id").
ColNames == {"a", "b", "id"}
NameRank == [n \in ColNames |-> IF n = "a" THEN 1 ELSE IF n = "b" THEN 2 ELSE 3]

\* Column.default: column b is declared with default="dflt", the others keep
\* the constructor's default=None.
ColumnDefault(name) == IF name = "b" THEN "dflt" ELSE "None"

Values == {"v1", "v2"}

\* Column.__set_name__: a column is bound to the class that declares it.
Col(name) == [table |-> "User", name |-> name]

\* A column declared on another table.
OtherColumn == [table |-> "Other", name |-> "x"]

NoColumn == [table |-> "None", name |-> "None"]

EmptyMap == [c \in {} |-> "None"]

\* Every class body: distinct column names in some declaration order, each
\* column with its primary_key flag.
RECURSIVE Bodies(_)
Bodies(names) ==
    {<<>>} \cup
    UNION {{<<[name |-> n, primary_key |-> pk]>> \o rest :
                pk \in BOOLEAN, rest \in Bodies(names \ {n})} : n \in names}

\* Sequences of distinct columns of the table.
RECURSIVE ColumnSeqs(_)
ColumnSeqs(names) ==
    {<<>>} \cup
    UNION {{<<Col(n)>> \o rest : rest \in ColumnSeqs(names \ {n})} : n \in names}

BodyNames(body) == {body[i].name : i \in 1..Len(body)}

BodyColumn(body, name) == CHOOSE d \in {body[i] : i \in 1..Len(body)} : d.name = name

\* sorted() over attribute names.
RECURSIVE SortedNames(_)
SortedNames(names) ==
    IF names = {} THEN <<>>
    ELSE LET m == CHOOSE x \in names : \A y \in names : NameRank[x] <= NameRank[y]
         IN <<m>> \o SortedNames(names \ {m})

\* TableMeta.iter_columns: inspect.getmembers(self, predicate) returns the
\* members sorted by name, whatever the order of the class body.
iter_columns(body) ==
    LET names == SortedNames(BodyNames(body))
    IN [i \in 1..Len(names) |-> BodyColumn(body, names[i])]

\* TableMeta.columns
columns(body) == iter_columns(body)

\* TableMeta._calculate_primary_key: None when no column is marked.
_calculate_primary_key(body) ==
    LET pk_cols == SelectSeq(iter_columns(body), LAMBDA d : d.primary_key)
    IN IF pk_cols # <<>>
       THEN [present |-> TRUE,
             columns |-> [i \in 1..Len(pk_cols) |-> Col(pk_cols[i].name)]]
       ELSE [present |-> FALSE, columns |-> <<>>]

\* TableRow._get_column_value
_get_column_value(values, column) ==
    IF column.table # "User"
    THEN [ret |-> "None", raised |-> "ValueError"]
    ELSE IF column \in DOMAIN values
    THEN [ret |-> values[column], raised |-> "None"]
    ELSE [ret |-> ColumnDefault(column.name), raised |-> "None"]

\* TableRow.__getattr__: the column of that name, then self._values[col].
getattr(body, values, item) ==
    IF item \notin BodyNames(body)
    THEN [ret |-> "None", raised |-> "NoSuchColumnError"]
    ELSE IF Col(item) \in DOMAIN values
    THEN [ret |-> values[Col(item)], raised |-> "None"]
    ELSE [ret |-> "None", raised |-> "KeyError"]

\* TableRow.update_column: the new _previous_values and _values.
update_column(values, prev, column, value) ==
    [prev |-> IF column \notin DOMAIN prev /\ column \in DOMAIN values
              THEN [c \in DOMAIN prev \cup {column} |->
                        IF c = column THEN values[column] ELSE prev[c]]
              ELSE prev,
     values |-> [c \in DOMAIN values \cup {column} |->
                    IF c = column THEN value ELSE values[c]]]

\* The loop of TableRow.primary_key over pk.columns.
RECURSIVE PkValues(_, _)
PkValues(values, cols) ==
    IF cols = <<>> THEN <<>>
    ELSE <<_get_column_value(values, Head(cols))>> \o PkValues(values, Tail(cols))

\* TableRow.primary_key that returns a tuple whatever the number of columns.
primary_key_always_tuple(pk, values) ==
    IF ~pk.present
    THEN [kind |-> "none", val |-> <<>>, raised |-> "AttributeError"]
    ELSE LET got == PkValues(values, pk.columns) IN
         IF \E i \in 1..Len(got) : got[i].raised # "None"
         THEN [kind |-> "none", val |-> <<>>, raised |-> "ValueError"]
         ELSE [kind |-> "tuple", val |-> [i \in 1..Len(got) |-> got[i].ret],
               raised |-> "None"]

\* TableRow.primary_key: a single value for one column, else a tuple.
\* A table without a primary key has _primary_key None: pk.columns fails.
primary_key(pk, values) ==
    IF ~pk.present
    THEN [kind |-> "none", val |-> <<>>, raised |-> "AttributeError"]
    ELSE LET got == PkValues(values, pk.columns)
             result == [i \in 1..Len(got) |-> got[i].ret]
         IN IF \E i \in 1..Len(got) : got[i].raised # "None"
            THEN [kind |-> "none", val |-> <<>>, raised |-> "ValueError"]
            ELSE IF Len(result) = 1
            THEN [kind |-> "scalar", val |-> result, raised |-> "None"]
            ELSE [kind |-> "tuple", val |-> result, raised |-> "None"]

\* The loop of TableMeta._get_table_row: update_column for every keyword.
RECURSIVE ApplyKwargs(_, _, _)
ApplyKwargs(st, names, kwargs) ==
    IF names = <<>> THEN st
    ELSE ApplyKwargs(update_column(st.values, st.prev, Col(Head(names)), kwargs[Head(names)]),
                     Tail(names), kwargs)

Call(op, column, value, res) ==
    [op |-> op, column |-> column, value |-> value,
     kind |-> res.kind, val |-> res.val, raised |-> res.raised]

NoResult == [kind |-> "none", val |-> <<>>, raised |-> "None"]

TableInit ==
    /\ tblDeclared = FALSE
    /\ tblBody = <<>>
    /\ tblPk = [present |-> FALSE, columns |-> <<>>]
    /\ rowBound = FALSE
    /\ rowValues = EmptyMap
    /\ rowPrev = EmptyMap
    /\ rowFirst = EmptyMap
    /\ rowLast = Call("none", NoColumn, "None", NoResult)

\* The table of the row operations: class User(Table) with the columns
\* id = Column(Integer, primary_key=True) and b = Column(String, default="dflt").
UserBody == <<[name |-> "id", primary_key |-> TRUE], [name |-> "b", primary_key |-> FALSE]>>

UserTableInit ==
    /\ tblDeclared = TRUE
    /\ tblBody = UserBody
    /\ tblPk = _calculate_primary_key(UserBody)
    /\ rowBound = FALSE
    /\ rowValues = EmptyMap
    /\ rowPrev = EmptyMap
    /\ rowFirst = EmptyMap
    /\ rowLast = Call("none", NoColumn, "None", NoResult)

\* TableMeta.__init__: the class statement of a table with some body.
DefineTable ==
    /\ ~tblDeclared
    /\ \E body \in Bodies(ColNames) :
        /\ tblBody' = body
        /\ tblPk' = _calculate_primary_key(body)
    /\ tblDeclared' = TRUE
    /\ rowLast' = Call("define", NoColumn, "None", NoResult)
    /\ UNCHANGED <<rowBound, rowValues, rowPrev, rowFirst>>
    /\ UNCHANGED rowVarsOther

\* The primary_key setter of the table, given a PrimaryKey over columns of
\* the table (as in the PrimaryKey docstring).
SetPrimaryKey ==
    /\ tblDeclared
    /\ \E cols \in ColumnSeqs(BodyNames(tblBody)) :
        tblPk' = [present |-> TRUE, columns |-> cols]
    /\ rowLast' = Call("set_primary_key", NoColumn, "None", NoResult)
    /\ UNCHANGED <<tblDeclared, tblBody, rowBound, rowValues, rowPrev, rowFirst>>
    /\ UNCHANGED rowVarsOther

\* TableMeta.__call__ / _get_table_row(**kwargs): a keyword that names no
\* column raises NoSuchColumnError and no row is returned.
GetTableRow ==
    /\ tblDeclared
    /\ \E names \in SUBSET ColNames :
       \E kwargs \in [names -> Values] :
        IF names \subseteq BodyNames(tblBody)
        THEN LET st == ApplyKwargs([values |-> EmptyMap, prev |-> EmptyMap],
                                   SortedNames(names), kwargs) IN
             /\ rowBound' = TRUE
             /\ rowValues' = st.values
             /\ rowPrev' = st.prev
             /\ rowFirst' = EmptyMap
             /\ rowLast' = Call("get_table_row", NoColumn, "None", NoResult)
        ELSE /\ rowLast' = Call("get_table_row", NoColumn, "None",
                                [kind |-> "none", val |-> <<>>, raised |-> "NoSuchColumnError"])
             /\ UNCHANGED <<rowBound, rowValues, rowPrev, rowFirst>>
    /\ UNCHANGED tblVars
    /\ UNCHANGED rowVarsOther

\* row.update_column(column, value), for a column of the table or of another.
UpdateColumn ==
    /\ rowBound
    /\ \E column \in {Col(n) : n \in BodyNames(tblBody)} \cup {OtherColumn}, value \in Values :
        LET st == update_column(rowValues, rowPrev, column, value) IN
        /\ rowValues' = st.values
        /\ rowPrev' = st.prev
        /\ rowFirst' = IF column \in DOMAIN rowFirst THEN rowFirst
                       ELSE [c \in DOMAIN rowFirst \cup {column} |->
                                IF c # column THEN rowFirst[c]
                                ELSE IF column \in DOMAIN rowValues THEN rowValues[column]
                                ELSE "Absent"]
        /\ rowLast' = Call("update_column", column, value, NoResult)
    /\ UNCHANGED <<tblVars, rowBound>>
    /\ UNCHANGED rowVarsOther

\* row._get_column_value(column)
GetColumnValue ==
    /\ rowBound
    /\ \E column \in {Col(n) : n \in BodyNames(tblBody)} \cup {OtherColumn} :
        LET r == _get_column_value(rowValues, column) IN
        rowLast' = Call("get_column_value", column, "None",
                        [kind |-> "scalar", val |-> <<r.ret>>, raised |-> r.raised])
    /\ UNCHANGED <<tblVars, rowBound, rowValues, rowPrev, rowFirst>>
    /\ UNCHANGED rowVarsOther

\* row.<item>, for a name that is no ordinary attribute of the row.
GetAttr ==
    /\ rowBound
    /\ \E item \in ColNames :
        LET r == getattr(tblBody, rowValues, item) IN
        rowLast' = Call("getattr", Col(item), "None",
                        [kind |-> "scalar", val |-> <<r.ret>>, raised |-> r.raised])
    /\ UNCHANGED <<tblVars, rowBound, rowValues, rowPrev, rowFirst>>
    /\ UNCHANGED rowVarsOther

\* row.primary_key
PrimaryKey ==
    /\ rowBound
    /\ rowLast' = Call("primary_key", NoColumn, "None", primary_key(tblPk, rowValues))
    /\ UNCHANGED <<tblVars, rowBound, rowValues, rowPrev, rowFirst>>
    /\ UNCHANGED rowVarsOther

NextSchema ==
    \/ DefineTable
    \/ SetPrimaryKey
    \/ GetTableRow
    \/ PrimaryKey

NextRow ==
    \/ GetTableRow
    \/ UpdateColumn
    \/ GetColumnValue
    \/ GetAttr

(***************************************************************************)
(* BaseResultSet                                                           *)
(***************************************************************************)
\* What fetch_row() can return: a DictRow with columns, a DictRow without any
\* (an empty ordered dict, which Python treats as false), or None.
FetchResults == {"row1", "row2", "empty_row", "None"}

\* bool(res) of Python.
Truthy(res) == res \notin {"empty_row", "None"}

RECURSIVE Streams(_)
Streams(n) ==
    IF n = 0 THEN {<<>>}
    ELSE LET shorter == Streams(n - 1) IN
         shorter \cup {Append(st, r) : st \in {x \in shorter : Len(x) = n - 1},
                                       r \in FetchResults}

\* fetch_row() of a cursor: the next result, None once the cursor is past
\* its last result.
fetch_row(stream) ==
    IF stream = <<>>
    THEN [res |-> "None", stream |-> <<>>]
    ELSE [res |-> Head(stream), stream |-> Tail(stream)]

\* BaseResultSet.__anext__: StopAsyncIteration when the result is false.
anext(stream) ==
    LET f == fetch_row(stream) IN
    [res |-> f.res, stop |-> ~Truthy(f.res), stream |-> f.stream]

\* A flatten() that puts each row in front of the rows it already has.
RECURSIVE flatten_prepend(_, _)
flatten_prepend(stream, rows) ==
    LET n == anext(stream) IN
    IF n.stop THEN [rows |-> rows, stream |-> n.stream]
    ELSE flatten_prepend(n.stream, <<n.res>> \o rows)

\* BaseResultSet.flatten: the loop "async for row in self: rows.append(row)".
RECURSIVE flatten(_, _)
flatten(stream, rows) ==
    LET n == anext(stream) IN
    IF n.stop THEN [rows |-> rows, stream |-> n.stream]
    ELSE flatten(n.stream, Append(rows, n.res))

\* The value __aexit__ returns: False, the exception of the body is not
\* swallowed.
RsAExitReturnsTrue == TRUE

RsAExitReturn == FALSE

RsInit ==
    /\ rsPc = "none"
    /\ rsStream = <<>>
    /\ rsCalls = <<>>
    /\ rsExc = "None"
    /\ rsOutcome = "running"
    /\ rsLast = [op |-> "none", res |-> "None", rows |-> <<>>, before |-> <<>>]

\* BaseTransaction.cursor(): a result set over some results.
Cursor ==
    /\ rsPc = "none"
    /\ \E st \in Streams(MaxRows) : rsStream' = st
    /\ rsPc' = "new"
    /\ UNCHANGED <<rsCalls, rsExc, rsOutcome, rsLast>>
    /\ UNCHANGED rsVarsOther

\* async with result_set: __aenter__ returns self.
RsAEnter ==
    /\ rsPc = "new"
    /\ rsPc' = "body"
    /\ UNCHANGED <<rsStream, rsCalls, rsExc, rsOutcome, rsLast>>
    /\ UNCHANGED rsVarsOther

\* The body fetches one row.
RsFetchRow ==
    /\ rsPc = "body"
    /\ Len(rsCalls) < MaxFetches
    /\ LET f == fetch_row(rsStream) IN
        /\ rsStream' = f.stream
        /\ rsLast' = [op |-> "fetch_row", res |-> f.res, rows |-> <<>>, before |-> rsStream]
    /\ rsCalls' = Append(rsCalls, "fetch_row")
    /\ UNCHANGED <<rsPc, rsExc, rsOutcome>>
    /\ UNCHANGED rsVarsOther

\* The body calls flatten().
RsFlatten ==
    /\ rsPc = "body"
    /\ Len(rsCalls) < MaxFetches
    /\ LET f == flatten(rsStream, <<>>) IN
        /\ rsStream' = f.stream
        /\ rsLast' = [op |-> "flatten", res |-> "None", rows |-> f.rows, before |-> rsStream]
    /\ rsCalls' = Append(rsCalls, "flatten")
    /\ UNCHANGED <<rsPc, rsExc, rsOutcome>>
    /\ UNCHANGED rsVarsOther

\* The body raises, or runs to its end.
RsBodyEnds ==
    /\ rsPc = "body"
    /\ \E e \in BodyErrors \cup {"None"} : rsExc' = e
    /\ rsPc' = "aexit"
    /\ UNCHANGED <<rsStream, rsCalls, rsOutcome, rsLast>>
    /\ UNCHANGED rsVarsOther

\* BaseResultSet.__aexit__: await self.close(); return False.
RsAExit ==
    /\ rsPc = "aexit"
    /\ \E r \in AwaitResults("close") :
        /\ rsCalls' = Append(rsCalls, "close")
        /\ rsOutcome' = IF r # "ok" THEN r
                        ELSE IF rsExc # "None" /\ ~RsAExitReturn THEN rsExc
                        ELSE "ok"
    /\ rsPc' = "done"
    /\ UNCHANGED <<rsStream, rsExc, rsLast>>
    /\ UNCHANGED rsVarsOther

NextRs ==
    \/ Cursor
    \/ RsAEnter
    \/ RsFetchRow
    \/ RsFlatten
    \/ RsBodyEnds
    \/ RsAExit

(***************************************************************************)
(* BaseQuery                                                               *)
(***************************************************************************)
\* The tables of the queries (katagawa.orm.table.Table: name and columns).
QTableNames == {"user", "post"}
QColumns(t) == IF t = "user" THEN <<"id", "name">> ELSE <<"id", "title">>

\* What select() may be handed: tables, and something that is no Table.
SelectArgs == QTableNames \cup {"not_a_table"}

\* The query is built on the user table: session.query(User).
QFrom == "user"

\* Operands of a comparison: literals of some Python type, or a Column.
IntLiteral(v) == [type |-> "int", v |-> v]
StrLiteral(v) == [type |-> "str", v |-> v]
ColumnOperand(name) == [type |-> "column", v |-> name]

\* Column.__eq__: an operator (column, "=", other).
Eq(column, other) == [column |-> column, operator |-> "=", other |-> other]

\* The conditions where() is given: single operators (User.id == 2,
\* User.name == "x", User.id == User.name) and a combinator of two operators.
Operators == {Eq("id", IntLiteral("2")), Eq("name", StrLiteral("x")),
              Eq("id", ColumnOperand("name"))}
Conditions ==
    {[kind |-> "operator", operators |-> <<o>>] : o \in Operators} \cup
    {[kind |-> "combinator",
      operators |-> <<Eq("name", StrLiteral("x")), Eq("id", IntLiteral("2"))>>]}

RECURSIVE SeqsUpTo(_, _)
SeqsUpTo(S, n) ==
    IF n = 0 THEN {<<>>}
    ELSE LET shorter == SeqsUpTo(S, n - 1) IN
         shorter \cup {Append(x, e) : x \in {y \in shorter : Len(y) = n - 1}, e \in S}

\* '"{}"."{}"'.format(table, column)
QuotedName(table, column) == "\"" \o table \o "\".\"" \o column \o "\""

\* "param_{}".format(param_count)
ParamName(n) == "param_" \o ToString(n)

\* _Operator.get_token: a new token (column, operator, value) each call, the
\* value being the literal or the Column of the operator.
OperatorToken(o) == [column |-> o.column, operator |-> o.operator, value |-> o.other]

\* op.get_token() of a condition: the token put into the WHERE clause.
ConditionToken(c) ==
    [kind |-> c.kind, subtokens |-> [i \in 1..Len(c.operators) |-> OperatorToken(c.operators[i])]]

\* ops of get_token's loop: [op] for an operator, op.operators for a combinator.
Ops(c) == c.operators

\* BaseQuery.select: every table is recorded under its name, in insertion
\* order; an argument that is no Table raises TypeError where the loop stands.
RECURSIVE select(_, _)
select(tables, args) ==
    IF args = <<>> THEN [tables |-> tables, raised |-> "None"]
    ELSE IF Head(args) \notin QTableNames THEN [tables |-> tables, raised |-> "TypeError"]
    ELSE select(IF \E i \in 1..Len(tables) : tables[i] = Head(args)
                THEN tables ELSE Append(tables, Head(args)),
                Tail(args))

\* A where() that keeps only the conditions of its last call.
where_replacing(conditions, args) == args

\* BaseQuery.where: self.conditions.append(condition) for each argument.
RECURSIVE where(_, _)
where(conditions, args) ==
    IF args = <<>> THEN conditions
    ELSE where(Append(conditions, Head(args)), Tail(args))

\* The fields of get_token: the columns of a table, namespaced by the table.
Fields(t) == [i \in 1..Len(QColumns(t)) |-> QuotedName(t, QColumns(t)[i])]

RECURSIVE JoinedFields(_)
JoinedFields(tables) ==
    IF tables = <<>> THEN <<>> ELSE Fields(Head(tables)) \o JoinedFields(Tail(tables))

\* A parameter counter that is kept across get_token() calls.
ParamStartCarried(compiles) == compiles

\* param_count = 0 at the start of each get_token() call.
ParamStart(compiles) == 0

\* The inner loop of get_token over the operators of one condition: a token
\* whose value is a str becomes a parameter.  The placeholder is written into
\* o, a token of this loop alone; the token of the WHERE clause is final.
RECURSIVE ParamsOfOps(_, _, _)
ParamsOfOps(ops, params, param_count) ==
    IF ops = <<>> THEN [params |-> params, param_count |-> param_count]
    ELSE LET o == OperatorToken(Head(ops)) IN
         IF o.value.type = "str"
         THEN ParamsOfOps(Tail(ops),
                          Append(params, [name |-> ParamName(param_count), value |-> o.value]),
                          param_count + 1)
         ELSE ParamsOfOps(Tail(ops), params, param_count)

\* The outer loop of get_token over self.conditions.
RECURSIVE WhereOf(_, _, _, _)
WhereOf(conditions, subtokens, params, param_count) ==
    IF conditions = <<>> THEN [subtokens |-> subtokens, params |-> params]
    ELSE LET final == ConditionToken(Head(conditions))
             r == ParamsOfOps(Ops(Head(conditions)), params, param_count)
         IN WhereOf(Tail(conditions), Append(subtokens, final), r.params, r.param_count)

\* BaseQuery.get_token: (Select(fields..., From, Where?), params).
get_token(tables, conditions, compiles) ==
    LET w == WhereOf(conditions, <<>>, <<>>, ParamStart(compiles)) IN
    [fields |-> Fields(QFrom) \o JoinedFields(tables),
     from |-> QFrom,
     has_where |-> conditions # <<>>,
     where |-> IF conditions # <<>> THEN w.subtokens ELSE <<>>,
     params |-> IF conditions # <<>> THEN w.params ELSE <<>>]

NoToken == [fields |-> <<>>, from |-> "None", has_where |-> FALSE, where |-> <<>>, params |-> <<>>]

\* BaseQuery.__init__: no tables, no conditions.
QueryInit ==
    /\ qTables = <<>>
    /\ qConditions = <<>>
    /\ qAdded = <<>>
    /\ qCompiles = 0
    /\ qLast = [op |-> "init", raised |-> "None", result |-> NoToken, repeated |-> FALSE]

\* query.select(*tables)
Select ==
    /\ \E args \in SeqsUpTo(SelectArgs, MaxArgs) :
        LET r == select(qTables, args) IN
        /\ qTables' = r.tables
        /\ qLast' = [op |-> "select", raised |-> r.raised, result |-> NoToken,
                     repeated |-> FALSE]
    /\ UNCHANGED <<qConditions, qAdded, qCompiles>>
    /\ UNCHANGED qVarsOther

\* query.where(*conditions)
Where ==
    /\ \E args \in SeqsUpTo(Conditions, MaxArgs) :
        /\ Len(qConditions) + Len(args) <= MaxConditions
        /\ qConditions' = where(qConditions, args)
        /\ qAdded' = qAdded \o args
    /\ qLast' = [op |-> "where", raised |-> "None", result |-> NoToken, repeated |-> FALSE]
    /\ UNCHANGED <<qTables, qCompiles>>
    /\ UNCHANGED qVarsOther

\* query.get_token(); repeated tells that the call before was get_token() too.
GetToken ==
    /\ qCompiles < MaxCompiles
    /\ qCompiles' = qCompiles + 1
    /\ qLast' = [op |-> "get_token", raised |-> "None",
                 result |-> get_token(qTables, qConditions, qCompiles),
                 repeated |-> qLast.op = "get_token"]
    /\ UNCHANGED <<qTables, qConditions, qAdded>>
    /\ UNCHANGED qVarsOther

NextQuery ==
    \/ Select
    \/ Where
    \/ GetToken

(***************************************************************************)
(* Specifications                                                          *)
(***************************************************************************)
Init == TxInit /\ DictInit /\ TableInit /\ RsInit /\ QueryInit

InitRow == TxInit /\ DictInit /\ UserTableInit /\ RsInit /\ QueryInit

SpecQuery == Init /\ [][NextQuery]_vars

SpecRs == Init /\ [][NextRs]_vars

SpecTx == Init /\ [][NextTx]_vars

SpecDict == Init /\ [][NextDict]_vars

SpecSchema == Init /\ [][NextSchema]_vars

SpecRow == InitRow /\ [][NextRow]_vars

(***************************************************************************)
(* Claims about BaseTransaction (checked under SpecTx)                     *)
(***************************************************************************)
\* The context was entered (begin() returned), __aexit__ ran and is over.
TxExited == txPc = "done" /\ txPending # "none"

\* The call log without the statements of the body.
TxLifecycle == SelectSeq(txCalls, LAMBDA m : m # "execute")

\* C1: when the body of the transaction context raises, rollback() is invoked,
\* commit() is never invoked and close() is invoked exactly once, also when
\* rollback() itself raises.
C1_BodyRaiseRollsBackAndClosesOnce ==
    (TxExited /\ txExc # "None") =>
        /\ CountCalls(txCalls, "rollback") >= 1
        /\ CountCalls(txCalls, "commit") = 0
        /\ CountCalls(txCalls, "close") = 1

\* The body raised, rollback() raised too, and close() has still been called.
C1_Witness ==
    /\ TxExited
    /\ txExc = "BodyError"
    /\ txPending = "rollback_error"
    /\ CountCalls(txCalls, "close") = 1

\* C2: every exit of the context calls close once, with has_error=True when the
\* body raised (cancellation included) and has_error=False on normal exit.
C2_CloseHasErrorTracksFailure ==
    TxExited => txCloseArgs = <<txExc # "None">>

\* C3: when the body completes without raising the calls are begin(), commit(),
\* close() in that order, close() exactly once and also when commit() raises;
\* rollback() is never invoked.
C3_NormalExitBeginCommitClose ==
    (TxExited /\ txExc = "None") => TxLifecycle = <<"begin", "commit", "close">>

\* The body completed, commit() raised, and the context has been left.
C3_Witness ==
    /\ TxExited
    /\ txExc = "None"
    /\ txPending = "commit_error"
    /\ CountCalls(txCalls, "close") = 1

\* C4: when the body raises E, E is what the caller of the context sees,
\* whether rollback() and close() return or raise.
C4_BodyErrorIsSurfaced ==
    (TxExited /\ txExc # "None") => txOutcome = txExc

\* C5: on every exit that ends in failure because the body raised or commit()
\* raised, rollback() is invoked, and before close().
C5_FailureRollsBackBeforeClose ==
    (TxExited /\ (txExc # "None" \/ txPending # "return_False")) =>
        /\ FirstCall(txCalls, "rollback") > 0
        /\ FirstCall(txCalls, "rollback") < FirstCall(txCalls, "close")

(***************************************************************************)
(* Claims about DictRow (checked under SpecDict)                           *)
(***************************************************************************)
\* C10: positional and keyed access agree on the insertion order: row[i] is
\* row[k] for k the i-th key, for every valid zero-based i; and a positional
\* assignment row[i] = v leaves the keys and their order as they were, the
\* value at the i-th key being v afterwards.
C10_PositionalAndKeyedAccessAgree ==
    /\ \A i \in 0..(Len(dOrder) - 1) :
          /\ DictGetItem(dOrder, dMap, [t |-> "int", i |-> i])
                = DictGetItem(dOrder, dMap, [t |-> "str", k |-> dOrder[i + 1]])
          /\ DictGetItem(dOrder, dMap, [t |-> "str", k |-> dOrder[i + 1]]).raised = "None"
    /\ (dLast.op = "setitem" /\ dLast.item.t = "int") =>
          /\ dOrder = dLast.keysBefore
          /\ (dLast.item.i \in 0..(Len(dOrder) - 1) =>
                /\ dLast.raised = "None"
                /\ dMap[dLast.keysBefore[dLast.item.i + 1]] = dLast.value)

\* row[1] = "b" on a row with keys id, name has updated the value at "name".
C10_Witness ==
    /\ dOrder = <<"id", "name">>
    /\ dLast.op = "setitem"
    /\ dLast.item = [t |-> "int", i |-> 1]
    /\ dLast.value = "b"
    /\ dMap["name"] = "b"
    /\ dMap["id"] = "a"

(***************************************************************************)
(* Claims about TableRow change tracking (checked under SpecRow)           *)
(***************************************************************************)
\* C6: after any sequence of update_column calls the previous-value map holds,
\* for a column written, the value the column had before its first write, and
\* no entry when the column had no value before (first write wins; never the
\* value of the first write itself).
C6_PreviousIsValueBeforeFirstWrite ==
    \A c \in DOMAIN rowFirst :
        c.table = "User" =>
            IF rowFirst[c] = "Absent"
            THEN c \notin DOMAIN rowPrev
            ELSE c \in DOMAIN rowPrev /\ rowPrev[c] = rowFirst[c]

\* C7: update_column with a column of another table fails with the
\* table-mismatch error and leaves both maps of the row as they were.
C7_UpdateForeignColumnFails ==
    (rowLast.op = "update_column" /\ rowLast.column.table # "User") =>
        /\ rowLast.raised = "ValueError"
        /\ rowLast.column \notin DOMAIN rowValues
        /\ rowLast.column \notin DOMAIN rowPrev

(***************************************************************************)
(* Claims about the primary key (checked under SpecSchema)                 *)
(***************************************************************************)
\* The columns of the class body marked primary_key=True, in declaration order.
DeclaredPrimary(body) ==
    LET marked == SelectSeq(body, LAMBDA d : d.primary_key)
    IN [i \in 1..Len(marked) |-> Col(marked[i].name)]

\* The value a read of the column gives: the current value, else the default.
CurrentOrDefault(c) ==
    IF c \in DOMAIN rowValues THEN rowValues[c] ELSE ColumnDefault(c.name)

\* C8: the primary key computed for a table lists the columns marked
\* primary_key=True in declaration order, and for two such columns
\* TableRow.primary_key returns their values in declaration order, whatever
\* the order of their names.
C8_PrimaryKeyInDeclarationOrder ==
    tblDeclared =>
        LET declared == DeclaredPrimary(tblBody) IN
        /\ _calculate_primary_key(tblBody).columns = declared
        /\ (/\ rowLast.op = "primary_key"
            /\ tblPk = _calculate_primary_key(tblBody)
            /\ Len(declared) = 2) =>
                rowLast.val = <<CurrentOrDefault(declared[1]), CurrentOrDefault(declared[2])>>

\* C9: TableRow.primary_key returns a single value when the PrimaryKey of the
\* table has exactly one column and otherwise a tuple with one value per
\* column, in the order of the PrimaryKey's columns; each value is the row's
\* current value of the column, or the column's default when it is unset.
C9_PrimaryKeyScalarOrTuple ==
    (rowLast.op = "primary_key" /\ tblPk.present) =>
        /\ rowLast.raised = "None"
        /\ rowLast.kind = (IF Len(tblPk.columns) = 1 THEN "scalar" ELSE "tuple")
        /\ Len(rowLast.val) = Len(tblPk.columns)
        /\ \A i \in 1..Len(tblPk.columns) :
                rowLast.val[i] = CurrentOrDefault(tblPk.columns[i])

\* A key of one column has been read as a scalar, the column being unset and
\* read as its default.
C9_Witness ==
    /\ rowLast.op = "primary_key"
    /\ tblPk.columns = <<Col("b")>>
    /\ Col("b") \notin DOMAIN rowValues
    /\ rowLast.kind = "scalar"
    /\ rowLast.val = <<"dflt">>

(***************************************************************************)
(* More claims about TableRow (checked under SpecRow)                      *)
(***************************************************************************)
\* C15: reading a declared column of a row gives its current value if one is
\* set and the column's default if none is, by _get_column_value and by
\* attribute access alike; a name that is no declared column fails with
\* NoSuchColumn.
C15_ReadFallsBackToDefault ==
    /\ (/\ rowLast.op \in {"get_column_value", "getattr"}
        /\ rowLast.column.table = "User"
        /\ rowLast.column.name \in BodyNames(tblBody)) =>
            /\ rowLast.raised = "None"
            /\ rowLast.val = <<CurrentOrDefault(rowLast.column)>>
    /\ (rowLast.op = "getattr" /\ rowLast.column.name \notin BodyNames(tblBody)) =>
            rowLast.raised = "NoSuchColumnError"

(***************************************************************************)
(* More claims about BaseTransaction (checked under SpecTx)                *)
(***************************************************************************)
\* C17: when begin() raises while the context is entered, the failure goes to
\* the caller and none of commit(), rollback(), close() is invoked.
C17_BeginFailureSkipsExit ==
    /\ (txPc = "done" /\ txOutcome = "begin_error") =>
            txCalls = <<"begin">> /\ txCloseArgs = <<>>
    /\ (txPc = "done" /\ txCalls = <<"begin">>) =>
            txOutcome \in {"begin_error", "CancelledError"}

\* begin() raised and the statement is over, with begin() the only call.
C17_Witness ==
    /\ txPc = "done"
    /\ txOutcome = "begin_error"
    /\ txCalls = <<"begin">>

(***************************************************************************)
(* Claims about BaseResultSet (checked under SpecRs)                       *)
(***************************************************************************)
\* C13: a result set used with "async with" has close() invoked exactly once
\* on every exit path, and an exception raised in the body is not suppressed:
\* the caller gets it (or what close() raised on top of it).
C13_ResultSetClosedOnceBodyErrorPropagates ==
    rsPc = "done" =>
        /\ CountCalls(rsCalls, "close") = 1
        /\ rsCalls[Len(rsCalls)] = "close"
        /\ rsExc # "None" => rsOutcome \in {rsExc, "close_error", "CancelledError"}
        /\ (rsExc = "BodyError" /\ rsOutcome # "close_error" /\ rsOutcome # "CancelledError")
                => rsOutcome = "BodyError"

\* The body raised, close() ran once and returned, the caller got the error.
C13_Witness ==
    /\ rsPc = "done"
    /\ rsExc = "BodyError"
    /\ rsOutcome = "BodyError"
    /\ CountCalls(rsCalls, "close") = 1

\* The results before the first one that ends the sequence (an empty or absent
\* result).
RECURSIVE RowsBeforeEnd(_)
RowsBeforeEnd(stream) ==
    IF stream = <<>> \/ Head(stream) \in {"None", "empty_row"} THEN <<>>
    ELSE <<Head(stream)>> \o RowsBeforeEnd(Tail(stream))

\* C14: flatten() returns the whole remaining sequence as a list in fetch
\* order: every row fetch_row() would still produce before the end-of-sequence
\* result, none dropped or reordered, and exhaustion is not an error.
C14_FlattenReturnsRemainingRows ==
    rsLast.op = "flatten" =>
        /\ rsLast.rows = RowsBeforeEnd(rsLast.before)
        /\ Len(rsStream) = Len(rsLast.before) - Len(rsLast.rows)
                           - (IF Len(rsLast.rows) < Len(rsLast.before) THEN 1 ELSE 0)

\* One row was fetched by hand, then flatten() returned the two rows left.
C14_Witness ==
    /\ rsLast.op = "flatten"
    /\ rsCalls = <<"fetch_row", "flatten">>
    /\ rsLast.rows = <<"row2", "row1">>

\* The literal (non-Column) operands of a condition list, in the order the
\* conditions and their operators are met.
RECURSIVE LiteralsOfOps(_)
LiteralsOfOps(ops) ==
    IF ops = <<>> THEN <<>>
    ELSE (IF Head(ops).other.type # "column" THEN <<Head(ops).other>> ELSE <<>>)
         \o LiteralsOfOps(Tail(ops))

RECURSIVE LiteralsOf(_)
LiteralsOf(conditions) ==
    IF conditions = <<>> THEN <<>>
    ELSE LiteralsOfOps(Head(conditions).operators) \o LiteralsOf(Tail(conditions))

\* C11: the parameter map a compile returns holds one entry per literal
\* operand of the condition list, whatever the type of its value, named
\* param_0, param_1, ... in first-encountered order and mapped to the operand.
C11_EveryLiteralIsParameterized ==
    qLast.op = "get_token" =>
        LET literals == LiteralsOf(qConditions) IN
        qLast.result.params =
            [i \in 1..Len(literals) |-> [name |-> ParamName(i - 1), value |-> literals[i]]]

C16_WhereAccumulatesInOrder ==
    /\ qConditions = qAdded
    /\ qLast.op = "get_token" =>
        /\ qLast.result.has_where <=> qConditions # <<>>
        /\ Len(qLast.result.where) = Len(qConditions)
        /\ \A i \in 1..Len(qConditions) :
               qLast.result.where[i] = ConditionToken(qConditions[i])

\* Three conditions from more than one where() call, not all alike, compiled.
C16_Witness ==
    /\ qLast.op = "get_token"
    /\ Len(qConditions) = MaxConditions
    /\ qConditions[1] # qConditions[MaxConditions]
    /\ qConditions[1].kind # qConditions[2].kind
    /\ qLast.result.has_where
====
